---- MODULE Spec2Model ----
(***************************************************************************)
(* QuickApolloLeads: credit ledger, order creation and fulfilment, Stripe  *)
(* payment completion, affiliate codes and commissions, password resets    *)
(* and the team routes, as implemented by server/routes.ts,                *)
(* server/storage.ts, server/emailAuth.ts, server/emailService.ts,         *)
(* shared/schema.ts and client/src/pages/TeamDashboard.tsx.                *)
(*                                                                         *)
(* Money is kept in integer cents (the decimal(10,2) columns), credits and *)
(* months are integers, a timestamp is the month it falls in; the expiry   *)
(* of a reset token is counted in half hours.                              *)
(***************************************************************************)
EXTENDS Integers, Sequences, FiniteSets, TLC

(***************************************************************************)
(* Bounds of the model.                                                    *)
(***************************************************************************)
MaxUsers == 2        \* registrations
MaxCodes == 1        \* distinct values generateAffiliateCode can draw
MaxClicks == 1       \* rows of affiliate_clicks
MaxRefs == 1         \* Stripe checkout sessions / payment intents created
MaxDeliveries == 2   \* deliveries of payment-completed events, repeats included
MaxMonth == 2        \* calendar months the clock runs through
MaxReqs == 2         \* POST /api/orders requests
MaxCredits == 2      \* largest balance add-credits builds; orders ask up to one more
MaxTokens == 2       \* password-reset tokens issued
MaxClock == 2        \* half hours the clock runs through
MaxPasswords == 2    \* distinct passwords a user can choose

NoUser == 0
NoCode == 0
NoMonth == 0
NoTime == 0
NoId == <<"null", 0>>
NoUrl == 0
NoStatus == "default"
FirstPassword == 1
RESET_TTL == 1

UserIds == 1 .. MaxUsers
Codes == 1 .. MaxCodes
Months == 1 .. MaxMonth
Refs == 1 .. MaxRefs
Reqs == 1 .. MaxReqs
Passwords == 1 .. MaxPasswords

VARIABLES
    users,                \* table users: sequence of rows, the id is the index
    sessionCode,          \* req.session.affiliateCode of the browsing session
    affiliateAdminAuth,   \* req.session.affiliateAdminAuth of the admin session
    affiliateClicks,      \* table affiliate_clicks: sequence of codes
    creditPurchases,      \* table credit_purchases: sequence of rows
    affiliateCommissions, \* table affiliate_commissions: sequence of rows
    stripeObjs,           \* Stripe side: sessions / intents created so far
    delivered,            \* Stripe side: deliveries of each completion event
    orders,               \* table orders: sequence of rows
    req,                  \* the POST /api/orders handlers in flight
    newOrderAlerts,       \* new-order alerts that reached the admin mailbox
    month,                \* the clock (new Date()), in months
    codeOwners,           \* history: every <<code, user>> an UPDATE has assigned
    resetRes,             \* the answer to the last forgot- / reset-password request
    resetTokensIssued,    \* history: to whom and when each reset token was issued
    clock,                \* the clock (Date.now(), NOW()), in half hours
    teamAuthenticated     \* localStorage team_authenticated of the team's browser

vars == <<users, sessionCode, affiliateAdminAuth, affiliateClicks,
          creditPurchases, affiliateCommissions, stripeObjs, delivered,
          orders, req, newOrderAlerts, month, codeOwners, resetRes,
          resetTokensIssued, clock, teamAuthenticated>>

payVars == <<sessionCode, affiliateAdminAuth, affiliateClicks,
             creditPurchases, affiliateCommissions, stripeObjs, delivered,
             month, codeOwners>>

orderVars == <<orders, req, newOrderAlerts>>

authVars == <<resetRes, resetTokensIssued, clock, teamAuthenticated>>

(***************************************************************************)
(* Configuration: the credit packages, price in cents                      *)
(* (Math.round(packageInfo.price * 100), the unit_amount sent to Stripe).  *)
(***************************************************************************)
CREDIT_PACKAGES ==
    (5000 :> [credits |-> 5000, price |-> 1000]) @@
    (10000 :> [credits |-> 10000, price |-> 1900]) @@
    (50000 :> [credits |-> 50000, price |-> 9000]) @@
    (100000 :> [credits |-> 100000, price |-> 17000]) @@
    (500000 :> [credits |-> 500000, price |-> 75000]) @@
    (1000000 :> [credits |-> 1000000, price |-> 140000])

PackageIds == DOMAIN CREDIT_PACKAGES
MaxPackages == 1
PackageList == <<5000, 10000, 50000, 100000, 500000, 1000000>>
Requested == {PackageList[i] : i \in 1 .. (IF MaxPackages < 6 THEN MaxPackages ELSE 6)}

\* a packageId that is no key of CREDIT_PACKAGES
InvalidPackage == 1

(***************************************************************************)
(* Identifiers. Stripe ids and gen_random_uuid() values never coincide.    *)
(***************************************************************************)
StripeId(ref) == <<stripeObjs[ref].kind, ref>>
Uuid(k) == <<"uuid", k>>

SeqRange(s) == {s[i] : i \in DOMAIN s}

RECURSIVE SumSeq(_)
SumSeq(s) == IF s = <<>> THEN 0 ELSE s[1] + SumSeq(Tail(s))

(***************************************************************************)
(* storage.ts: users                                                       *)
(***************************************************************************)
getUser(id) == IF id \in DOMAIN users THEN id ELSE NoUser

getUserByAffiliateCode(code) ==
    IF \E u \in DOMAIN users : users[u].affiliateCode = code
    THEN CHOOSE u \in DOMAIN users : users[u].affiliateCode = code
    ELSE NoUser

createUser(row) == Append(users, row)

addCredits(us, userId, credits) ==
    IF userId \in DOMAIN us
    THEN [us EXCEPT ![userId].credits = @ + credits]
    ELSE us

\* a ledger whose deduction takes one credit too few
deductCreditsShort(us, userId, credits) ==
    IF userId \in DOMAIN us
    THEN [us EXCEPT ![userId].credits = @ - credits + 1]
    ELSE us

\* a ledger that stops at zero instead of going below it
deductCreditsClamped(us, userId, credits) ==
    IF userId \in DOMAIN us
    THEN [us EXCEPT ![userId].credits = IF @ - credits < 0 THEN 0 ELSE @ - credits]
    ELSE us

deductCredits(us, userId, credits) ==
    IF userId \in DOMAIN us
    THEN [us EXCEPT ![userId].credits = @ - credits]
    ELSE us

(***************************************************************************)
(* storage.ts: credit purchases, affiliate clicks and commissions.         *)
(* An insert that violates a constraint of schema.ts throws and leaves the *)
(* table as it was.                                                        *)
(***************************************************************************)
PurchaseIds(rows) == {rows[i].id : i \in DOMAIN rows}

\* credit_purchases.id is the primary key
createCreditPurchase(rows, row) ==
    IF row.id \in PurchaseIds(rows) THEN rows ELSE Append(rows, row)

\* affiliate_clicks.affiliate_code references users.affiliate_code
trackAffiliateClickThrows(affiliateCode) ==
    getUserByAffiliateCode(affiliateCode) = NoUser

trackAffiliateClick(clicks, affiliateCode) == Append(clicks, affiliateCode)

\* affiliate_commissions.purchase_id references credit_purchases.id,
\* affiliate_user_id and referred_user_id reference users.id
createAffiliateCommission(rows, purchases, commission) ==
    IF /\ commission.purchaseId \in PurchaseIds(purchases)
       /\ commission.affiliateUserId \in DOMAIN users
       /\ commission.referredUserId \in DOMAIN users
    THEN Append(rows, commission)
    ELSE rows

\* leaves the paymentMonth of a row that is already paid as it is
markCommissionsPaidKeepMonth(rows, commissionIds, paymentMonth, now) ==
    [i \in DOMAIN rows |->
        IF i \in commissionIds
        THEN [rows[i] EXCEPT !.status = "paid",
                             !.paymentMonth =
                                 IF rows[i].status = "paid" THEN @ ELSE paymentMonth,
                             !.paidAt = now]
        ELSE rows[i]]

\* marks the rows paid but forgets the status column
markCommissionsPaidNoStatus(rows, commissionIds, paymentMonth, now) ==
    [i \in DOMAIN rows |->
        IF i \in commissionIds
        THEN [rows[i] EXCEPT !.paymentMonth = paymentMonth, !.paidAt = now]
        ELSE rows[i]]

markCommissionsPaid(rows, commissionIds, paymentMonth, now) ==
    [i \in DOMAIN rows |->
        IF i \in commissionIds
        THEN [rows[i] EXCEPT !.status = "paid",
                             !.paymentMonth = paymentMonth,
                             !.paidAt = now]
        ELSE rows[i]]

(***************************************************************************)
(* routes.ts: the commission of a completed checkout session.              *)
(* amountPaid is session.amount_total in cents. The code computes          *)
(* Math.round(amountPaid / 100 * 0.15 * 100) / 100 in doubles; for an      *)
(* amount whose 15% is not exactly half a cent away from a cent (all the   *)
(* prices of CREDIT_PACKAGES) that is the integer rounding below.          *)
(***************************************************************************)
\* rounds the commission to whole dollars: Math.round(amountPaid * 0.15)
CommissionAmountWholeDollars(amountPaid) ==
    100 * ((15 * amountPaid + 5000) \div 10000)

CommissionAmount(amountPaid) == (15 * amountPaid + 50) \div 100

\* writes the purchaser where the affiliate belongs
NewCommissionSwapped(updatedUser, userId, purchaseId, amountPaid, now) ==
    [affiliateUserId |-> userId,
     referredUserId |-> updatedUser.referredBy,
     purchaseId |-> purchaseId,
     saleAmount |-> amountPaid,
     commissionAmount |-> CommissionAmount(amountPaid),
     paymentMonth |-> now,
     status |-> "pending",
     paidAt |-> NoTime,
     createdAt |-> now]

NewCommission(updatedUser, userId, purchaseId, amountPaid, now) ==
    [affiliateUserId |-> updatedUser.referredBy,
     referredUserId |-> userId,
     purchaseId |-> purchaseId,
     saleAmount |-> amountPaid,
     commissionAmount |-> CommissionAmount(amountPaid),
     paymentMonth |-> now,
     status |-> "pending",
     paidAt |-> NoTime,
     createdAt |-> now]

\* if (updatedUser.referredBy)
WasReferred(updatedUser) == updatedUser.referredBy # NoUser

\* pays a commission on every purchase: the purchaser's own when nobody referred
CommissionsForEveryone(updatedUser, userId, purchaseId, amountPaid, now) ==
    <<[NewCommission(updatedUser, userId, purchaseId, amountPaid, now)
         EXCEPT !.affiliateUserId =
             IF WasReferred(updatedUser) THEN updatedUser.referredBy ELSE userId]>>

\* the commission rows a completed checkout session inserts
CommissionsFor(updatedUser, userId, purchaseId, amountPaid, now) ==
    IF WasReferred(updatedUser)
    THEN <<NewCommission(updatedUser, userId, purchaseId, amountPaid, now)>>
    ELSE <<>>

(***************************************************************************)
(* storage.ts getAllPendingCommissions and affiliate-admin.tsx             *)
(* getMonthlyBills. A commission's id is its index in the table; the       *)
(* per-affiliate breakdown inside a bill is left out.                      *)
(***************************************************************************)
RECURSIVE PendingCommissionsUpTo(_, _)
\* WHERE status = 'pending' ORDER BY created_at DESC, kept when the affiliate
\* and the referred user exist
PendingCommissionsUpTo(rows, n) ==
    IF n = 0 THEN <<>>
    ELSE (IF /\ rows[n].status = "pending"
             /\ rows[n].affiliateUserId \in DOMAIN users
             /\ getUser(rows[n].referredUserId) # NoUser
          THEN <<n>> ELSE <<>>) \o PendingCommissionsUpTo(rows, n - 1)

getAllPendingCommissions(rows) == PendingCommissionsUpTo(rows, Len(rows))

\* the month of new Date(commission.createdAt)
MonthKey(commission) == commission.createdAt

EmptyBill(monthKey) ==
    [month |-> monthKey, totalCommissions |-> 0, totalSales |-> 0,
     transactionCount |-> 0, commissionIds |-> <<>>]

\* a reducer that replaces the month's totals by the last commission's
MonthlyBillReplace(rows, acc, id) ==
    LET monthKey == MonthKey(rows[id])
    IN [m \in DOMAIN acc \cup {monthKey} |->
           IF m = monthKey
           THEN [month |-> monthKey,
                 totalCommissions |-> rows[id].commissionAmount,
                 totalSales |-> rows[id].saleAmount,
                 transactionCount |-> 1,
                 commissionIds |-> <<id>>]
           ELSE acc[m]]

\* one step of the reduce: the commission is added to its month's bill
MonthlyBillAdd(rows, acc, id) ==
    LET monthKey == MonthKey(rows[id])
        bill == IF monthKey \in DOMAIN acc THEN acc[monthKey] ELSE EmptyBill(monthKey)
    IN [m \in DOMAIN acc \cup {monthKey} |->
           IF m = monthKey
           THEN [bill EXCEPT !.totalCommissions = @ + rows[id].commissionAmount,
                             !.totalSales = @ + rows[id].saleAmount,
                             !.transactionCount = @ + 1,
                             !.commissionIds = Append(@, id)]
           ELSE acc[m]]

RECURSIVE GroupByMonth(_, _, _)
GroupByMonth(rows, ids, acc) ==
    IF ids = <<>> THEN acc
    ELSE GroupByMonth(rows, Tail(ids), MonthlyBillAdd(rows, acc, Head(ids)))

RECURSIVE SortedByMonthDesc(_, _)
\* Object.values(grouped).sort((a, b) => b.month.localeCompare(a.month))
SortedByMonthDesc(grouped, keys) ==
    IF keys = {} THEN <<>>
    ELSE LET last == CHOOSE k \in keys : \A j \in keys : j <= k
         IN <<grouped[last]>> \o SortedByMonthDesc(grouped, keys \ {last})

getMonthlyBills(rows) ==
    LET grouped == GroupByMonth(rows, getAllPendingCommissions(rows), <<>>)
    IN SortedByMonthDesc(grouped, DOMAIN grouped)

\* a query that leaves the pending commissions out
CommissionsOfAffiliatePaidOnly(rows, userId) ==
    {i \in DOMAIN rows : rows[i].affiliateUserId = userId /\ rows[i].status = "paid"}

\* FROM affiliate_commissions WHERE affiliate_user_id = <userId>
CommissionsOfAffiliate(rows, userId) ==
    {i \in DOMAIN rows : rows[i].affiliateUserId = userId}

RECURSIVE GroupAmount(_, _)
\* SUM(commission_amount) over the rows of one group
GroupAmount(rows, ids) ==
    IF ids = {} THEN 0
    ELSE LET i == CHOOSE j \in ids : TRUE
         IN rows[i].commissionAmount + GroupAmount(rows, ids \ {i})

\* storage.getUserAffiliateStats(userId).monthlyCommissions: nothing for a user
\* without a code, else SELECT payment_month, SUM(commission_amount), status
\* ... GROUP BY payment_month, status; the entries as a set (ORDER BY
\* payment_month DESC leaves the order of a month's entries open)
monthlyCommissions(rows, us, userId) ==
    IF us[userId].affiliateCode = NoCode
    THEN {}
    ELSE LET mine == CommissionsOfAffiliate(rows, userId)
             group(i) == {j \in mine : /\ rows[j].paymentMonth = rows[i].paymentMonth
                                        /\ rows[j].status = rows[i].status}
         IN {[month |-> rows[i].paymentMonth,
              amount |-> GroupAmount(rows, group(i)),
              status |-> rows[i].status] : i \in mine}

(***************************************************************************)
(* emailAuth.ts: POST /api/register                                        *)
(***************************************************************************)
\* attributes the registration to the holder of any code, whatever the session says
ReferredByAnyAffiliate(code) ==
    IF \E u \in DOMAIN users : users[u].affiliateCode # NoCode
    THEN CHOOSE u \in DOMAIN users : users[u].affiliateCode # NoCode
    ELSE NoUser

\* if (req.session?.affiliateCode) { affiliateUser = getUserByAffiliateCode(...) }
ReferredBy(code) ==
    IF code # NoCode THEN getUserByAffiliateCode(code) ELSE NoUser

\* the row storage.createUser inserts: the hashed password of the form, no
\* reset token, the column defaults
NewUser(referredBy) ==
    [credits |-> 0,
     affiliateCode |-> NoCode,
     referredBy |-> referredBy,
     password |-> FirstPassword,
     passwordResetToken |-> NoId,
     passwordResetExpires |-> NoTime]

\* sendVerificationEmail sits in a try/catch: the 201 does not depend on it
Register(emailOk) ==
    /\ Len(users) < MaxUsers
    /\ users' = createUser(NewUser(ReferredBy(sessionCode)))
    /\ UNCHANGED <<payVars, orderVars, authVars>>

\* the session cookie expires, or the caller is a fresh browser
SessionReset ==
    /\ sessionCode # NoCode
    /\ sessionCode' = NoCode
    /\ UNCHANGED <<users, affiliateAdminAuth, affiliateClicks, creditPurchases,
                   affiliateCommissions, stripeObjs, delivered, month, orderVars,
                   codeOwners, authVars>>

(***************************************************************************)
(* routes.ts: affiliate routes                                             *)
(***************************************************************************)
\* users.affiliate_code is unique and is referenced by affiliate_clicks
generateAffiliateCodeThrows(userId, affiliateCode) ==
    \/ \E u \in DOMAIN users : u # userId /\ users[u].affiliateCode = affiliateCode
    \/ /\ users[userId].affiliateCode # affiliateCode
       /\ users[userId].affiliateCode \in SeqRange(affiliateClicks)

GenerateAffiliateCode(userId, affiliateCode) ==
    /\ userId \in DOMAIN users
    /\ IF generateAffiliateCodeThrows(userId, affiliateCode)
       THEN UNCHANGED <<users, codeOwners>>
       ELSE /\ users' = [users EXCEPT ![userId].affiliateCode = affiliateCode]
            /\ codeOwners' = codeOwners \cup {<<affiliateCode, userId>>}
    /\ UNCHANGED <<sessionCode, affiliateAdminAuth, affiliateClicks,
                   creditPurchases, affiliateCommissions, stripeObjs, delivered,
                   month, orderVars, authVars>>

\* GET /ref/:affiliateCode
RefClick(affiliateCode) ==
    /\ Len(affiliateClicks) < MaxClicks
    /\ IF trackAffiliateClickThrows(affiliateCode)
       THEN UNCHANGED <<affiliateClicks, sessionCode>>
       ELSE /\ affiliateClicks' = trackAffiliateClick(affiliateClicks, affiliateCode)
            /\ sessionCode' = affiliateCode
    /\ UNCHANGED <<users, affiliateAdminAuth, creditPurchases,
                   affiliateCommissions, stripeObjs, delivered, month, orderVars,
                   codeOwners, authVars>>

\* POST /api/team/affiliate/auth
AffiliateAdminAuth(passwordOk) ==
    /\ affiliateAdminAuth' = (affiliateAdminAuth \/ passwordOk)
    /\ UNCHANGED <<users, sessionCode, affiliateClicks, creditPurchases,
                   affiliateCommissions, stripeObjs, delivered, month, orderVars,
                   codeOwners, authVars>>

\* the admin session's cookie expires
AdminSessionEnds ==
    /\ affiliateAdminAuth
    /\ affiliateAdminAuth' = FALSE
    /\ UNCHANGED <<users, sessionCode, affiliateClicks, creditPurchases,
                   affiliateCommissions, stripeObjs, delivered, month, orderVars,
                   codeOwners, authVars>>

\* GET /api/team/affiliate/pending-commissions: 401 unless the session
\* carries affiliateAdminAuth, else the pending commissions
PendingCommissions(auth, rows) ==
    IF ~auth
    THEN [status |-> "Unauthorized", body |-> <<>>]
    ELSE [status |-> "ok", body |-> getAllPendingCommissions(rows)]

\* a route that does not look at the session
MarkPaidResponseOpen(auth, commissionIds, paymentMonth) ==
    IF paymentMonth = NoMonth THEN "ValidationError" ELSE "ok"

\* what mark-paid answers: 401 unless the session carries
\* affiliateAdminAuth, 400 without a paymentMonth
MarkPaidResponse(auth, commissionIds, paymentMonth) ==
    IF ~auth THEN "Unauthorized"
    ELSE IF paymentMonth = NoMonth THEN "ValidationError"
    ELSE "ok"

\* POST /api/team/affiliate/mark-paid
MarkPaid(commissionIds, paymentMonth) ==
    /\ affiliateCommissions' =
          IF MarkPaidResponse(affiliateAdminAuth, commissionIds, paymentMonth) = "ok"
          THEN markCommissionsPaid(affiliateCommissions, commissionIds,
                                   paymentMonth, month)
          ELSE affiliateCommissions
    /\ UNCHANGED <<users, sessionCode, affiliateAdminAuth, affiliateClicks,
                   creditPurchases, stripeObjs, delivered, month, orderVars,
                   codeOwners, authVars>>

(***************************************************************************)
(* routes.ts: checkout and the Stripe webhook                              *)
(***************************************************************************)
\* what Stripe keeps of a session or intent: the metadata and the amount
StripeObj(kind, userId, packageId) ==
    [kind |-> kind,
     userId |-> userId,
     packageId |-> packageId,
     credits |-> CREDIT_PACKAGES[packageId].credits,
     amount |-> CREDIT_PACKAGES[packageId].price]

PendingPurchase(userId, packageId, stripeId) ==
    [id |-> Uuid(Len(creditPurchases) + 1),
     userId |-> userId,
     amount |-> CREDIT_PACKAGES[packageId].price,
     credits |-> CREDIT_PACKAGES[packageId].credits,
     stripePaymentIntentId |-> stripeId,
     status |-> "pending"]

\* POST /api/create-checkout-session ("cs"), POST /api/create-payment-intent ("pi")
CreatePayment(kind, userId, packageId) ==
    /\ userId \in DOMAIN users
    /\ Len(stripeObjs) < MaxRefs
    /\ IF packageId \notin PackageIds
       THEN UNCHANGED <<stripeObjs, delivered, creditPurchases>>
       ELSE /\ stripeObjs' = Append(stripeObjs, StripeObj(kind, userId, packageId))
            /\ delivered' = Append(delivered, 0)
            /\ creditPurchases' =
                  createCreditPurchase(creditPurchases,
                      PendingPurchase(userId, packageId,
                                      <<kind, Len(stripeObjs) + 1>>))
    /\ UNCHANGED <<users, sessionCode, affiliateAdminAuth, affiliateClicks,
                   affiliateCommissions, month, orderVars,
                   codeOwners, authVars>>

CreateCheckoutSession(userId, packageId) == CreatePayment("cs", userId, packageId)

CreatePaymentIntent(userId, packageId) == CreatePayment("pi", userId, packageId)

\* storage.updateCreditPurchaseStatus: UPDATE ... WHERE id = <id>
updateCreditPurchaseStatus(rows, id, status) ==
    [i \in DOMAIN rows |->
        IF rows[i].id = id THEN [rows[i] EXCEPT !.status = status] ELSE rows[i]]

\* event payment_intent.succeeded
PaymentIntentSucceeded(ref, emailOk) ==
    /\ ref \in DOMAIN stripeObjs
    /\ stripeObjs[ref].kind = "pi"
    /\ SumSeq(delivered) < MaxDeliveries
    /\ delivered' = [delivered EXCEPT ![ref] = @ + 1]
    /\ creditPurchases' =
          updateCreditPurchaseStatus(creditPurchases, StripeId(ref), "completed")
    /\ users' = addCredits(users, stripeObjs[ref].userId, stripeObjs[ref].credits)
    /\ UNCHANGED <<sessionCode, affiliateAdminAuth, affiliateClicks,
                   affiliateCommissions, stripeObjs, month, orderVars,
                   codeOwners, authVars>>

CompletedPurchase(ref) ==
    [id |-> StripeId(ref),
     userId |-> stripeObjs[ref].userId,
     amount |-> stripeObjs[ref].amount,
     credits |-> stripeObjs[ref].credits,
     stripePaymentIntentId |-> NoId,
     status |-> "completed"]

\* event checkout.session.completed
CheckoutSessionCompleted(ref, emailOk) ==
    /\ ref \in DOMAIN stripeObjs
    /\ stripeObjs[ref].kind = "cs"
    /\ SumSeq(delivered) < MaxDeliveries
    /\ delivered' = [delivered EXCEPT ![ref] = @ + 1]
    /\ LET userId == stripeObjs[ref].userId
           amountPaid == stripeObjs[ref].amount
       IN IF getUser(userId) = NoUser
          THEN UNCHANGED <<users, creditPurchases, affiliateCommissions>>
          ELSE /\ users' = addCredits(users, userId, stripeObjs[ref].credits)
               /\ creditPurchases' =
                     createCreditPurchase(creditPurchases, CompletedPurchase(ref))
               /\ LET new == CommissionsFor(users'[userId], userId,
                                            StripeId(ref), amountPaid, month)
                  IN affiliateCommissions' =
                        IF new = <<>>
                        THEN affiliateCommissions
                        ELSE createAffiliateCommission(affiliateCommissions,
                                                       creditPurchases', new[1])
    /\ UNCHANGED <<sessionCode, affiliateAdminAuth, affiliateClicks,
                   stripeObjs, month, orderVars,
                   codeOwners, authVars>>

\* the calendar moves on
Tick ==
    /\ month < MaxMonth
    /\ month' = month + 1
    /\ UNCHANGED <<users, sessionCode, affiliateAdminAuth, affiliateClicks,
                   creditPurchases, affiliateCommissions, stripeObjs, delivered,
                   orderVars,
                   codeOwners, authVars>>

(***************************************************************************)
(* routes.ts: POST /api/add-credits and POST /api/orders.                  *)
(* The order handler runs in pieces, one per await on the database:        *)
(* getUser and the check, deductCredits, createOrder, the admin email and  *)
(* the response.                                                           *)
(***************************************************************************)
\* the fields of the request body insertOrderSchema lets through to the row
DefaultBody == [status |-> NoStatus, csvUrl |-> NoUrl, userId |-> NoUser]

\* bodies that leave status and csvUrl out, as the order form sends them
FormBodies == {DefaultBody}

\* bodies of any client: status and csvUrl are optional columns of the schema
OrderBodies ==
    [status : {NoStatus, "completed", "failed"}, csvUrl : {NoUrl, 1},
     userId : {NoUser}]

\* bodies that carry a userId of their own: any user's id, or an id of no user
ForeignBodies ==
    {[DefaultBody EXCEPT !.userId = u] : u \in UserIds \cup {NoUser}}

\* a spread in the other order: the body's userId wins over the caller's
orderDataBodyLast(body, userId) ==
    IF body.userId # NoUser THEN body ELSE [body EXCEPT !.userId = userId]

\* insertOrderSchema.parse({...req.body, userId}): the caller's id replaces
\* whatever userId the body carries
orderData(body, userId) == [body EXCEPT !.userId = userId]

IdleReq ==
    [pc |-> "idle", userId |-> NoUser, creditsUsed |-> 0, credits |-> 0,
     body |-> DefaultBody, res |-> "none"]

\* the handler has answered; its locals are gone
Responded(res) == [IdleReq EXCEPT !.pc = "done", !.res = res]

AddCredits(userId, credits) ==
    /\ userId \in DOMAIN users
    /\ credits > 0
    /\ users[userId].credits + credits <= MaxCredits
    /\ users' = addCredits(users, userId, credits)
    /\ UNCHANGED <<payVars, orderVars, authVars>>

\* if (!user || (user.credits || 0) < orderData.creditsUsed)
InsufficientCredits(credits, creditsUsed) == credits < creditsUsed

\* insertOrderSchema.parse({...req.body, userId}); a ZodError ends in the 500
OrderRequest(r, userId, creditsUsed, body, valid) ==
    /\ req[r].pc = "idle"
    /\ \A q \in Reqs : q < r => req[q].pc # "idle"
    /\ userId \in DOMAIN users
    /\ req' = [req EXCEPT ![r] =
          IF valid
          THEN [IdleReq EXCEPT !.pc = "getUser", !.userId = userId,
                               !.creditsUsed = creditsUsed, !.body = body]
          ELSE Responded("ValidationError")]
    /\ UNCHANGED <<users, payVars, orders, newOrderAlerts, authVars>>

\* deducts before it looks at the balance
OrderCheckDeductFirst(r) ==
    /\ req[r].pc = "getUser"
    /\ users' = deductCredits(users, req[r].userId, req[r].creditsUsed)
    /\ req' = [req EXCEPT ![r] =
          IF InsufficientCredits(users[req[r].userId].credits, req[r].creditsUsed)
          THEN Responded("InsufficientCredits")
          ELSE [req[r] EXCEPT !.pc = "insert",
                              !.credits = users[req[r].userId].credits]]
    /\ UNCHANGED <<payVars, orders, newOrderAlerts, authVars>>

\* await storage.getUser(userId) and the sufficiency check
OrderCheck(r) ==
    /\ req[r].pc = "getUser"
    /\ req' = [req EXCEPT ![r] =
          IF InsufficientCredits(users[req[r].userId].credits, req[r].creditsUsed)
          THEN Responded("InsufficientCredits")
          ELSE [req[r] EXCEPT !.pc = "deduct",
                              !.credits = users[req[r].userId].credits]]
    /\ UNCHANGED <<users, payVars, orders, newOrderAlerts, authVars>>

\* await storage.deductCredits(userId, orderData.creditsUsed)
OrderDeduct(r) ==
    /\ req[r].pc = "deduct"
    /\ users' = deductCredits(users, req[r].userId, req[r].creditsUsed)
    /\ req' = [req EXCEPT ![r].pc = "insert"]
    /\ UNCHANGED <<payVars, orders, newOrderAlerts, authVars>>

\* the row INSERT INTO orders writes: the body's status and csvUrl when it
\* carries them, the column defaults otherwise; completedAt is omitted by
\* insertOrderSchema
NewOrder(userId, creditsUsed, body) ==
    [userId |-> userId,
     creditsUsed |-> creditsUsed,
     status |-> IF body.status = NoStatus THEN "pending" ELSE body.status,
     csvUrl |-> body.csvUrl,
     completedAt |-> NoTime]

\* await storage.createOrder(orderData); a database error ends in the 500
OrderInsert(r, dbOk) ==
    /\ req[r].pc = "insert"
    /\ IF dbOk
       THEN /\ orders' = Append(orders,
                                NewOrder(orderData(req[r].body, req[r].userId).userId,
                                         req[r].creditsUsed, req[r].body))
            /\ req' = [req EXCEPT ![r].pc = "notify"]
       ELSE /\ orders' = orders
            /\ req' = [req EXCEPT ![r] = Responded("Error")]
    /\ UNCHANGED <<users, payVars, newOrderAlerts, authVars>>

\* a handler whose response fails when the alert cannot be sent
OrderNotifyOrFail(r, emailOk) ==
    /\ req[r].pc = "notify"
    /\ newOrderAlerts' = IF emailOk THEN newOrderAlerts + 1 ELSE newOrderAlerts
    /\ req' = [req EXCEPT ![r] = Responded(IF emailOk THEN "ok" ELSE "Error")]
    /\ UNCHANGED <<users, payVars, orders, authVars>>

\* sendNewOrderNotificationEmail in its try/catch, then res.json(order)
OrderNotify(r, emailOk) ==
    /\ req[r].pc = "notify"
    /\ newOrderAlerts' = IF emailOk THEN newOrderAlerts + 1 ELSE newOrderAlerts
    /\ req' = [req EXCEPT ![r] = Responded("ok")]
    /\ UNCHANGED <<users, payVars, orders, authVars>>

\* storage.fulfillOrder: UPDATE orders SET csvUrl, deliveryType, notes,
\* status, completedAt WHERE id = <id>; an order's id is its index
fulfillOrder(rows, id, csvUrl, status, completedAt) ==
    [i \in DOMAIN rows |->
        IF i = id
        THEN [rows[i] EXCEPT !.csvUrl = csvUrl,
                             !.status = status,
                             !.completedAt = completedAt]
        ELSE rows[i]]

\* what the fulfil route answers and whether the customer got the completion
\* email: 400 without a csvUrl; for an id that matches no order the UPDATE
\* returns no row, updatedOrder.userId throws a TypeError and the catch
\* answers 500; else the updated order, the email being best effort
FulfillResponse(rows, orderId, csvUrl, emailOk) ==
    IF csvUrl = NoUrl
    THEN [status |-> "ValidationError", notified |-> FALSE]
    ELSE IF orderId \notin DOMAIN rows
    THEN [status |-> "Error", notified |-> FALSE]
    ELSE [status |-> "ok",
          notified |-> getUser(rows[orderId].userId) # NoUser /\ emailOk]

\* PUT /api/team/orders/:orderId/fulfill: 400 without a csvUrl; an id that
\* matches no order updates nothing and ends in the 500
Fulfill(orderId, csvUrl, emailOk) ==
    /\ orders' = IF csvUrl = NoUrl
                 THEN orders
                 ELSE fulfillOrder(orders, orderId, csvUrl, "completed", month)
    /\ UNCHANGED <<users, payVars, req, newOrderAlerts, authVars>>

(***************************************************************************)
(* routes.ts: POST /api/forgot-password and POST /api/reset-password.      *)
(* An email address is the id of the user registered with it; the password *)
(* column holds the password its hash was made from.                       *)
(***************************************************************************)
\* randomBytes(32).toString('hex'): a value never returned before
ResetToken(k) == <<"reset", k>>

\* storage.getUserByEmail
getUserByEmail(email) == IF email \in DOMAIN users THEN email ELSE NoUser

\* UPDATE users SET password_reset_token, password_reset_expires WHERE email = <email>
setPasswordResetToken(us, email, token, expires) ==
    [u \in DOMAIN us |->
        IF u = email
        THEN [us[u] EXCEPT !.passwordResetToken = token,
                           !.passwordResetExpires = expires]
        ELSE us[u]]

\* matches a token after its expiry too
TokenMatchesForever(row, token, now) ==
    row.passwordResetToken = token

\* WHERE password_reset_token = <token> AND password_reset_expires > NOW()
TokenMatches(row, token, now) ==
    /\ row.passwordResetToken = token
    /\ row.passwordResetExpires > now

\* storage.getUserByPasswordResetToken
getUserByPasswordResetToken(us, token, now) ==
    IF \E u \in DOMAIN us : TokenMatches(us[u], token, now)
    THEN CHOOSE u \in DOMAIN us : TokenMatches(us[u], token, now)
    ELSE NoUser

\* sets the new password and leaves the token in place
resetPasswordKeepToken(us, token, hashedPassword, now) ==
    [u \in DOMAIN us |->
        IF TokenMatches(us[u], token, now)
        THEN [us[u] EXCEPT !.password = hashedPassword]
        ELSE us[u]]

\* storage.resetPassword: UPDATE users SET password, password_reset_token = null,
\* password_reset_expires = null WHERE the token matches and has not expired
resetPassword(us, token, hashedPassword, now) ==
    [u \in DOMAIN us |->
        IF TokenMatches(us[u], token, now)
        THEN [us[u] EXCEPT !.password = hashedPassword,
                           !.passwordResetToken = NoId,
                           !.passwordResetExpires = NoTime]
        ELSE us[u]]

\* POST /api/forgot-password: 400 without an email, the same 200 for an
\* unknown address, else a fresh token good for 30 minutes and the reset
\* email; the catch around sendPasswordResetEmail answers 500
ForgotPassword(email, emailOk) ==
    /\ Len(resetTokensIssued) < MaxTokens
    /\ IF email = NoUser
       THEN /\ resetRes' = "ValidationError"
            /\ UNCHANGED <<users, resetTokensIssued>>
       ELSE IF getUserByEmail(email) = NoUser
       THEN /\ resetRes' = "ok"
            /\ UNCHANGED <<users, resetTokensIssued>>
       ELSE /\ resetTokensIssued' =
                  Append(resetTokensIssued, [email |-> email, at |-> clock])
            /\ users' = setPasswordResetToken(users, email,
                            ResetToken(Len(resetTokensIssued) + 1),
                            clock + RESET_TTL)
            /\ resetRes' = IF emailOk THEN "ok" ELSE "UpstreamFailure"
    /\ UNCHANGED <<payVars, orderVars, clock, teamAuthenticated>>

\* POST /api/reset-password: 400 for a missing token or a missing or short
\* password (valid = FALSE) and for a token no unexpired row carries
ResetPassword(token, newPassword, valid) ==
    /\ IF ~valid
       THEN /\ resetRes' = "ValidationError"
            /\ users' = users
       ELSE IF getUserByPasswordResetToken(users, token, clock) = NoUser
       THEN /\ resetRes' = "InvalidToken"
            /\ users' = users
       ELSE /\ users' = resetPassword(users, token, newPassword, clock)
            /\ resetRes' = "PasswordReset"
    /\ UNCHANGED <<payVars, orderVars, resetTokensIssued, clock, teamAuthenticated>>

\* half an hour passes
ClockTick ==
    /\ clock < MaxClock
    /\ clock' = clock + 1
    /\ UNCHANGED <<users, payVars, orderVars, resetRes, resetTokensIssued,
                   teamAuthenticated>>

(***************************************************************************)
(* The team dashboard (client/src/pages/TeamDashboard.tsx) and the team    *)
(* routes of routes.ts.  The two team passwords are compared in the        *)
(* browser; the routes themselves are registered without any middleware.   *)
(***************************************************************************)
\* handleTeamLogin: both passwords must match exactly
TeamLogin(password1Ok, password2Ok) ==
    /\ teamAuthenticated' = (teamAuthenticated \/ (password1Ok /\ password2Ok))
    /\ UNCHANGED <<users, payVars, orderVars, resetRes, resetTokensIssued, clock>>

\* handleLogout
TeamLogout ==
    /\ teamAuthenticated
    /\ teamAuthenticated' = FALSE
    /\ UNCHANGED <<users, payVars, orderVars, resetRes, resetTokensIssued, clock>>

\* POST /api/team/assign-credits: 400 without an email or a positive amount,
\* 404 for an unknown email, else addCredits
AssignCredits(email, credits) ==
    /\ email \in DOMAIN users => users[email].credits + credits <= MaxCredits
    /\ users' = IF email = NoUser \/ credits <= 0 \/ getUserByEmail(email) = NoUser
                THEN users
                ELSE addCredits(users, getUserByEmail(email), credits)
    /\ UNCHANGED <<payVars, orderVars, authVars>>

\* no order handler is between its first and its last step
Quiet == \A r \in Reqs : req[r].pc \in {"idle", "done"}

(***************************************************************************)
(* The state after construction: an empty database, no session state.      *)
(***************************************************************************)
Init ==
    /\ users = <<>>
    /\ sessionCode = NoCode
    /\ affiliateAdminAuth = FALSE
    /\ affiliateClicks = <<>>
    /\ creditPurchases = <<>>
    /\ affiliateCommissions = <<>>
    /\ stripeObjs = <<>>
    /\ delivered = <<>>
    /\ orders = <<>>
    /\ req = [r \in Reqs |-> IdleReq]
    /\ newOrderAlerts = 0
    /\ month = 1
    /\ codeOwners = {}
    /\ resetRes = "none"
    /\ resetTokensIssued = <<>>
    /\ clock = 0
    /\ teamAuthenticated = FALSE

NextPay ==
    \/ \E emailOk \in BOOLEAN : Register(emailOk)
    \/ SessionReset
    \/ \E u \in UserIds, c \in Codes : GenerateAffiliateCode(u, c)
    \/ \E c \in Codes : RefClick(c)
    \/ \E u \in UserIds, p \in Requested \cup {InvalidPackage} : CreateCheckoutSession(u, p)
    \/ \E u \in UserIds, p \in Requested \cup {InvalidPackage} : CreatePaymentIntent(u, p)
    \/ \E ref \in Refs, emailOk \in BOOLEAN : PaymentIntentSucceeded(ref, emailOk)
    \/ \E ref \in Refs, emailOk \in BOOLEAN : CheckoutSessionCompleted(ref, emailOk)

SpecPay == Init /\ [][NextPay]_vars

(***************************************************************************)
(* The commission life cycle, from the database SpecPay reaches when user  *)
(* 1 has generated a code, a visitor has followed the referral link and    *)
(* registered as user 2 (Referred below is that state).                    *)
(***************************************************************************)
Referred ==
    /\ users = <<[NewUser(NoUser) EXCEPT !.affiliateCode = 1], NewUser(1)>>
    /\ sessionCode = 1
    /\ affiliateAdminAuth = FALSE
    /\ affiliateClicks = <<1>>
    /\ creditPurchases = <<>>
    /\ affiliateCommissions = <<>>
    /\ stripeObjs = <<>>
    /\ delivered = <<>>
    /\ orders = <<>>
    /\ req = [r \in Reqs |-> IdleReq]
    /\ newOrderAlerts = 0
    /\ month = 1
    /\ codeOwners = {<<1, 1>>}
    /\ resetRes = "none"
    /\ resetTokensIssued = <<>>
    /\ clock = 0
    /\ teamAuthenticated = FALSE

NextPayout ==
    \/ \E ok \in BOOLEAN : AffiliateAdminAuth(ok)
    \/ \E ids \in SUBSET DOMAIN affiliateCommissions, m \in Months \cup {NoMonth} :
          MarkPaid(ids, m)
    \/ \E u \in DOMAIN users, p \in Requested \cup {InvalidPackage} : CreateCheckoutSession(u, p)
    \/ \E u \in DOMAIN users, p \in Requested \cup {InvalidPackage} : CreatePaymentIntent(u, p)
    \/ \E ref \in Refs, emailOk \in BOOLEAN : CheckoutSessionCompleted(ref, emailOk)
    \/ \E ref \in Refs, emailOk \in BOOLEAN : PaymentIntentSucceeded(ref, emailOk)
    \/ Tick

SpecPayout == Referred /\ [][NextPayout]_vars

NextCatalog ==
    \/ \E u \in DOMAIN users, p \in PackageIds \cup {InvalidPackage} : CreateCheckoutSession(u, p)
    \/ \E u \in DOMAIN users, p \in PackageIds \cup {InvalidPackage} : CreatePaymentIntent(u, p)
    \/ \E ref \in Refs, emailOk \in BOOLEAN : CheckoutSessionCompleted(ref, emailOk)
    \/ \E ref \in Refs, emailOk \in BOOLEAN : PaymentIntentSucceeded(ref, emailOk)
    \/ Tick

SpecCatalog == Referred /\ [][NextCatalog]_vars

(***************************************************************************)
(* The payout of the commissions of one checkout session, from the state   *)
(* SpecPay reaches when the referred user 2 has opened a checkout session  *)
(* for the smallest package (Purchased below is that state).               *)
(***************************************************************************)
Purchased ==
    /\ users = <<[NewUser(NoUser) EXCEPT !.affiliateCode = 1], NewUser(1)>>
    /\ sessionCode = 1
    /\ affiliateAdminAuth = FALSE
    /\ affiliateClicks = <<1>>
    /\ creditPurchases = <<[id |-> Uuid(1),
                            userId |-> 2,
                            amount |-> CREDIT_PACKAGES[5000].price,
                            credits |-> CREDIT_PACKAGES[5000].credits,
                            stripePaymentIntentId |-> <<"cs", 1>>,
                            status |-> "pending"]>>
    /\ affiliateCommissions = <<>>
    /\ stripeObjs = <<[kind |-> "cs",
                       userId |-> 2,
                       packageId |-> 5000,
                       credits |-> CREDIT_PACKAGES[5000].credits,
                       amount |-> CREDIT_PACKAGES[5000].price]>>
    /\ delivered = <<0>>
    /\ orders = <<>>
    /\ req = [r \in Reqs |-> IdleReq]
    /\ newOrderAlerts = 0
    /\ month = 1
    /\ codeOwners = {<<1, 1>>}
    /\ resetRes = "none"
    /\ resetTokensIssued = <<>>
    /\ clock = 0
    /\ teamAuthenticated = FALSE

NextMarkPaid ==
    \/ \E ok \in BOOLEAN : AffiliateAdminAuth(ok)
    \/ \E ids \in SUBSET DOMAIN affiliateCommissions, m \in Months \cup {NoMonth} :
          MarkPaid(ids, m)
    \/ \E ref \in DOMAIN stripeObjs, emailOk \in BOOLEAN : CheckoutSessionCompleted(ref, emailOk)
    \/ SessionReset
    \/ AdminSessionEnds
    \/ Tick

SpecMarkPaid == Purchased /\ [][NextMarkPaid]_vars

(***************************************************************************)
(* The life of an order, from the state SpecOrders reaches when the first  *)
(* user has registered and topped up to MaxCredits (Funded below), with    *)
(* the request bodies of any client and the team's fulfilment.             *)
(***************************************************************************)
Funded ==
    /\ users = <<[NewUser(NoUser) EXCEPT !.credits = MaxCredits]>>
    /\ sessionCode = NoCode
    /\ affiliateAdminAuth = FALSE
    /\ affiliateClicks = <<>>
    /\ creditPurchases = <<>>
    /\ affiliateCommissions = <<>>
    /\ stripeObjs = <<>>
    /\ delivered = <<>>
    /\ orders = <<>>
    /\ req = [r \in Reqs |-> IdleReq]
    /\ newOrderAlerts = 0
    /\ month = 1
    /\ codeOwners = {}
    /\ resetRes = "none"
    /\ resetTokensIssued = <<>>
    /\ clock = 0
    /\ teamAuthenticated = FALSE

NextFulfill ==
    \/ Quiet /\ \E r \in Reqs, u \in DOMAIN users, n \in 1 .. MaxCredits,
                   body \in OrderBodies, valid \in BOOLEAN :
                   OrderRequest(r, u, n, body, valid)
    \/ \E r \in Reqs : OrderCheck(r)
    \/ \E r \in Reqs : OrderDeduct(r)
    \/ \E r \in Reqs, dbOk \in BOOLEAN : OrderInsert(r, dbOk)
    \/ \E r \in Reqs, emailOk \in BOOLEAN : OrderNotify(r, emailOk)
    \/ \E id \in Reqs, csvUrl \in {NoUrl, 1, 2}, emailOk \in BOOLEAN :
          Fulfill(id, csvUrl, emailOk)

SpecFulfill == Funded /\ [][NextFulfill]_vars

OrderInputs == (-1) .. (MaxCredits + 1)

\* order creation with the handlers' database calls interleaved
NextOrders ==
    \/ \E emailOk \in BOOLEAN : Register(emailOk)
    \/ \E u \in UserIds, k \in 1 .. MaxCredits : AddCredits(u, k)
    \/ \E r \in Reqs, u \in UserIds, n \in OrderInputs, valid \in BOOLEAN,
           body \in FormBodies :
          OrderRequest(r, u, n, body, valid)
    \/ \E r \in Reqs : OrderCheck(r)
    \/ \E r \in Reqs : OrderDeduct(r)
    \/ \E r \in Reqs, dbOk \in BOOLEAN : OrderInsert(r, dbOk)
    \/ \E r \in Reqs, emailOk \in BOOLEAN : OrderNotify(r, emailOk)

SpecOrders == Init /\ [][NextOrders]_vars

\* order creation with one request served at a time
NextOrderSeq ==
    \/ Quiet /\ \E emailOk \in BOOLEAN : Register(emailOk)
    \/ Quiet /\ \E u \in UserIds, k \in 1 .. MaxCredits : AddCredits(u, k)
    \/ Quiet /\ \E r \in Reqs, u \in UserIds, n \in OrderInputs, valid \in BOOLEAN,
                     body \in FormBodies :
                   OrderRequest(r, u, n, body, valid)
    \/ \E r \in Reqs : OrderCheck(r)
    \/ \E r \in Reqs : OrderDeduct(r)
    \/ \E r \in Reqs, dbOk \in BOOLEAN : OrderInsert(r, dbOk)
    \/ \E r \in Reqs, emailOk \in BOOLEAN : OrderNotify(r, emailOk)

SpecOrderSeq == Init /\ [][NextOrderSeq]_vars

(***************************************************************************)
(* The five operations that send a notification email, each with a mail    *)
(* provider that works or fails: registration, payment completion, order   *)
(* creation, fulfilment and the password-reset request.                    *)
(***************************************************************************)
NextNotify ==
    \/ Quiet /\ \E emailOk \in BOOLEAN : Register(emailOk)
    \/ \E u \in UserIds, p \in Requested : CreateCheckoutSession(u, p)
    \/ \E u \in UserIds, p \in Requested : CreatePaymentIntent(u, p)
    \/ \E ref \in Refs, emailOk \in BOOLEAN : PaymentIntentSucceeded(ref, emailOk)
    \/ \E ref \in Refs, emailOk \in BOOLEAN : CheckoutSessionCompleted(ref, emailOk)
    \/ Quiet /\ \E r \in Reqs, u \in UserIds, n \in 1 .. MaxCredits,
                   body \in FormBodies, valid \in BOOLEAN :
                   OrderRequest(r, u, n, body, valid)
    \/ \E r \in Reqs : OrderCheck(r)
    \/ \E r \in Reqs : OrderDeduct(r)
    \/ \E r \in Reqs, dbOk \in BOOLEAN : OrderInsert(r, dbOk)
    \/ \E r \in Reqs, emailOk \in BOOLEAN : OrderNotify(r, emailOk)
    \/ \E id \in Reqs, emailOk \in BOOLEAN : Fulfill(id, 1, emailOk)
    \/ \E email \in UserIds, emailOk \in BOOLEAN : ForgotPassword(email, emailOk)

SpecNotify == Init /\ [][NextNotify]_vars

(***************************************************************************)
(* Concurrent addCredits and deductCredits calls on one balance, from the  *)
(* state SpecPay reaches when the first user has registered and opened a   *)
(* payment intent for the smallest package (Invoiced below): deliveries of *)
(* the payment event add credits while order handlers, interleaved at      *)
(* their awaits, deduct them.  Inserts succeed and the mail works, so the  *)
(* Order rows and the handlers past their deduction are the log of the     *)
(* deductions and the delivery counts are the log of the additions.        *)
(***************************************************************************)
Invoiced ==
    /\ users = <<NewUser(NoUser)>>
    /\ sessionCode = NoCode
    /\ affiliateAdminAuth = FALSE
    /\ affiliateClicks = <<>>
    /\ creditPurchases = <<[id |-> Uuid(1),
                            userId |-> 1,
                            amount |-> CREDIT_PACKAGES[5000].price,
                            credits |-> CREDIT_PACKAGES[5000].credits,
                            stripePaymentIntentId |-> <<"pi", 1>>,
                            status |-> "pending"]>>
    /\ affiliateCommissions = <<>>
    /\ stripeObjs = <<StripeObj("pi", 1, 5000)>>
    /\ delivered = <<0>>
    /\ orders = <<>>
    /\ req = [r \in Reqs |-> IdleReq]
    /\ newOrderAlerts = 0
    /\ month = 1
    /\ codeOwners = {}
    /\ resetRes = "none"
    /\ resetTokensIssued = <<>>
    /\ clock = 0
    /\ teamAuthenticated = FALSE

LedgerInputs == (1 .. MaxCredits) \cup {CREDIT_PACKAGES[5000].credits}

NextLedger ==
    \/ \E ref \in DOMAIN stripeObjs : PaymentIntentSucceeded(ref, TRUE)
    \/ \E r \in Reqs, u \in DOMAIN users, n \in LedgerInputs, body \in FormBodies :
          OrderRequest(r, u, n, body, TRUE)
    \/ \E r \in Reqs : OrderCheck(r)
    \/ \E r \in Reqs : OrderDeduct(r)
    \/ \E r \in Reqs : OrderInsert(r, TRUE)
    \/ \E r \in Reqs : OrderNotify(r, TRUE)

SpecLedger == Invoiced /\ [][NextLedger]_vars

(***************************************************************************)
(* Affiliate codes drawn by Math.random from more values than there are    *)
(* users, so that a holder can replace a code and the old value can be     *)
(* drawn again.                                                            *)
(***************************************************************************)
CodeDraws == 1 .. (MaxCodes + 2)

NextCodes ==
    \/ \E emailOk \in BOOLEAN : Register(emailOk)
    \/ SessionReset
    \/ \E u \in UserIds, c \in CodeDraws : GenerateAffiliateCode(u, c)
    \/ \E c \in CodeDraws : RefClick(c)

SpecCodes == Init /\ [][NextCodes]_vars

(***************************************************************************)
(* The team's actions next to the customers' orders, from Funded: the team *)
(* member logs in and out of the dashboard while anyone can call the team  *)
(* routes.                                                                 *)
(***************************************************************************)
NextTeam ==
    \/ \E password1Ok \in BOOLEAN, password2Ok \in BOOLEAN :
          TeamLogin(password1Ok, password2Ok)
    \/ TeamLogout
    \/ Quiet /\ \E r \in Reqs, u \in DOMAIN users, n \in 1 .. MaxCredits,
                   body \in FormBodies :
                   OrderRequest(r, u, n, body, TRUE)
    \/ \E r \in Reqs : OrderCheck(r)
    \/ \E r \in Reqs : OrderDeduct(r)
    \/ \E r \in Reqs : OrderInsert(r, TRUE)
    \/ \E r \in Reqs, emailOk \in BOOLEAN : OrderNotify(r, emailOk)
    \/ \E id \in Reqs, csvUrl \in {NoUrl, 1}, emailOk \in BOOLEAN :
          Fulfill(id, csvUrl, emailOk)
    \/ \E email \in UserIds \cup {NoUser}, credits \in 0 .. MaxCredits :
          AssignCredits(email, credits)

SpecTeam == Funded /\ [][NextTeam]_vars

(***************************************************************************)
(* Password resets of the two users of Referred: reset requests for known, *)
(* unknown and missing addresses, reset attempts with any token issued so  *)
(* far or not yet, and the clock.                                          *)
(***************************************************************************)
Emails == UserIds \cup {NoUser, MaxUsers + 1}

Tokens == {ResetToken(k) : k \in 1 .. MaxTokens}

NextReset ==
    \/ \E email \in Emails, emailOk \in BOOLEAN : ForgotPassword(email, emailOk)
    \/ \E token \in Tokens, newPassword \in Passwords, valid \in BOOLEAN :
          ResetPassword(token, newPassword, valid)
    \/ ClockTick

SpecReset == Referred /\ [][NextReset]_vars

(***************************************************************************)
(* Orders of the two users of Referred whose request bodies carry a userId *)
(* of their own, one request served at a time.                             *)
(***************************************************************************)
NextCaller ==
    \/ Quiet /\ \E u \in DOMAIN users, k \in 1 .. MaxCredits : AddCredits(u, k)
    \/ Quiet /\ \E r \in Reqs, u \in DOMAIN users, n \in 1 .. MaxCredits,
                   body \in ForeignBodies :
                   OrderRequest(r, u, n, body, TRUE)
    \/ \E r \in Reqs : OrderCheck(r)
    \/ \E r \in Reqs : OrderDeduct(r)
    \/ \E r \in Reqs : OrderInsert(r, TRUE)
    \/ \E r \in Reqs : OrderNotify(r, TRUE)

SpecCaller == Referred /\ [][NextCaller]_vars

Next ==
    \/ NextPay
    \/ NextPayout
    \/ NextOrders
    \/ NextMarkPaid
    \/ NextFulfill
    \/ NextNotify
    \/ NextCodes
    \/ NextTeam
    \/ NextReset
    \/ NextCaller

Spec == Init /\ [][Next]_vars

(***************************************************************************)
(* Properties                                                              *)
(***************************************************************************)
Commissions == SeqRange(affiliateCommissions)

\* the purchase rows and ids that stand for the payment reference ref
PurchaseIdsOf(ref) ==
    {StripeId(ref)} \cup
    {creditPurchases[i].id : i \in {j \in DOMAIN creditPurchases :
        creditPurchases[j].stripePaymentIntentId = StripeId(ref)}}

RECURSIVE CreditsPaidFor(_, _)
\* the credits of the payment references 1 .. n that user u has paid
CreditsPaidFor(u, n) ==
    IF n = 0 THEN 0
    ELSE CreditsPaidFor(u, n - 1) +
         (IF stripeObjs[n].userId = u /\ delivered[n] >= 1
          THEN stripeObjs[n].credits ELSE 0)

\* C1: with one request served at a time, an order request that passed
\* validation and asks for more credits than the balance read is answered
\* InsufficientCredits, and when the handler answers with the created order
\* the user's balance is the balance read minus creditsUsed.
C1_CreateOrderDebitsCreditsUsed ==
    [][\A r \in Reqs :
         /\ (/\ req[r].pc = "getUser"
             /\ req'[r].pc # "getUser"
             /\ req[r].creditsUsed > users[req[r].userId].credits)
            => req'[r].res = "InsufficientCredits"
         /\ (req[r].pc = "notify" /\ req'[r].res = "ok")
            => users'[req[r].userId].credits = req[r].credits - req[r].creditsUsed
      ]_vars

\* a rejected request is behind, an accepted one is about to be answered
C1_Witness ==
    \E r, q \in Reqs :
        /\ req[q].res = "InsufficientCredits"
        /\ req[r].pc = "notify"
        /\ req[r].creditsUsed > 0
        /\ req[r].credits >= req[r].creditsUsed

\* C2: no user's balance is ever negative, whatever the interleaving of the
\* order handlers' database calls.
C2_CreditsNeverNegative ==
    \A u \in DOMAIN users : users[u].credits >= 0

\* C3: where only payments change balances, a user's balance is the sum of
\* the credits of the payment references completed for that user, each
\* counted once however often its completion event was delivered.
C3_CreditsGrantedOncePerReference ==
    \A u \in DOMAIN users : users[u].credits = CreditsPaidFor(u, Len(stripeObjs))

\* C4: at most one commission row exists per purchase reference.
C4_OneCommissionPerReference ==
    \A ref \in DOMAIN stripeObjs :
        Cardinality({i \in DOMAIN affiliateCommissions :
            affiliateCommissions[i].purchaseId \in PurchaseIdsOf(ref)}) <= 1

\* C5: every payment reference completed for a referred user, by either
\* event, has a commission row tied to (referredBy, purchaser, purchase).
C5_ReferredCompletionHasCommission ==
    \A ref \in DOMAIN stripeObjs :
        (delivered[ref] >= 1 /\ WasReferred(users[stripeObjs[ref].userId]))
        => \E c \in Commissions :
              /\ c.affiliateUserId = users[stripeObjs[ref].userId].referredBy
              /\ c.referredUserId = stripeObjs[ref].userId
              /\ c.purchaseId \in PurchaseIdsOf(ref)

\* C6: the step that answers InsufficientCredits changes no balance and no
\* order row, and the rejected handler takes no further step.
C6_RejectedOrderChangesNothing ==
    [][\A r \in Reqs :
         /\ (req[r].res # "InsufficientCredits" /\ req'[r].res = "InsufficientCredits")
            => (users' = users /\ orders' = orders)
         /\ req[r].res = "InsufficientCredits" => req'[r] = req[r]
      ]_vars

\* a request was rejected while its user held credits and no order exists
C6_Witness ==
    /\ \E r \in Reqs : req[r].res = "InsufficientCredits"
    /\ \E u \in DOMAIN users : users[u].credits > 0
    /\ orders = <<>>

\* C7: every commission row carries the amount charged for its session as
\* saleAmount and 15% of it, rounded half up to the cent, as
\* commissionAmount; a sale of 19.00 carries a commission of 2.85.
C7_CommissionIsFifteenPercent ==
    \A c \in Commissions :
        /\ \E ref \in DOMAIN stripeObjs :
              c.purchaseId = StripeId(ref) /\ c.saleAmount = stripeObjs[ref].amount
        /\ 100 * c.commissionAmount - 50 <= 15 * c.saleAmount
        /\ 15 * c.saleAmount < 100 * c.commissionAmount + 50
        /\ c.saleAmount = 1900 => c.commissionAmount = 285

\* the 10,000-credit package was bought by the referred user
C7_Witness ==
    \E c \in Commissions : c.saleAmount = 1900 /\ c.commissionAmount = 285

\* C8: the delivery of a completion event for a user nobody referred leaves
\* the commission rows as they were.
C8_NoCommissionWithoutReferrer ==
    [][\A ref \in DOMAIN stripeObjs :
         (delivered'[ref] > delivered[ref] /\ ~WasReferred(users[stripeObjs[ref].userId]))
         => affiliateCommissions' = affiliateCommissions
      ]_vars

\* a user nobody referred has completed a checkout session
C8_Witness ==
    \E ref \in DOMAIN stripeObjs :
        /\ stripeObjs[ref].kind = "cs"
        /\ delivered[ref] >= 1
        /\ ~WasReferred(users[stripeObjs[ref].userId])
        /\ users[stripeObjs[ref].userId].credits > 0

\* C9: every commission row names as affiliate the referrer of its referred
\* user, and never the referred user itself.
C9_CommissionGoesToReferrer ==
    \A c \in Commissions :
        /\ c.referredUserId \in DOMAIN users
        /\ c.affiliateUserId = users[c.referredUserId].referredBy
        /\ c.affiliateUserId # c.referredUserId
        /\ c.affiliateUserId # NoUser

\* a purchase of a user who registered through a referral link has paid its
\* commission to the owner of the link
C9_Witness ==
    \E c \in Commissions :
        /\ users[c.affiliateUserId].affiliateCode # NoCode
        /\ users[c.referredUserId].credits > 0
        /\ c.status = "pending"

C11_MarkPaidTwiceKeepsLastMonth ==
    [][\A S \in SUBSET DOMAIN affiliateCommissions, m \in Months :
         (affiliateAdminAuth /\ MarkPaid(S, m))
         => /\ DOMAIN affiliateCommissions' = DOMAIN affiliateCommissions
            /\ \A i \in S :
                  /\ affiliateCommissions'[i].status = "paid"
                  /\ affiliateCommissions'[i].paymentMonth = m
            /\ \A i \in DOMAIN affiliateCommissions \ S :
                  affiliateCommissions'[i] = affiliateCommissions[i]
            /\ \A m2 \in Months, i \in S :
                  LET twice == markCommissionsPaid(affiliateCommissions', S, m2, month)
                  IN twice[i].status = "paid" /\ twice[i].paymentMonth = m2
      ]_vars

\* a commission paid in a later month for an earlier one, next to one the
\* requests left pending
C11_Witness ==
    \E c, d \in Commissions :
        /\ c.status = "paid"
        /\ c.paidAt > c.paymentMonth
        /\ d.status = "pending"

\* the pending commissions the admin page shows, as a set of ids
Pending ==
    {i \in DOMAIN affiliateCommissions :
        affiliateCommissions[i].status = "pending"}

RECURSIVE SumOver(_, _)
\* the sum of the field of the commissions whose ids are in S
SumOver(S, field) ==
    IF S = {} THEN 0
    ELSE LET i == CHOOSE j \in S : TRUE
         IN affiliateCommissions[i][field] + SumOver(S \ {i}, field)

\* C12: the monthly bills have exactly one entry per calendar month in which
\* a pending commission was created; an entry's totalCommissions,
\* totalSales and transactionCount are the sum of commissionAmount, the sum
\* of saleAmount and the number of the pending commissions of its month.
C12_MonthlyBillsGroupByCreationMonth ==
    LET bills == getMonthlyBills(affiliateCommissions)
        members(m) == {i \in Pending : affiliateCommissions[i].createdAt = m}
    IN /\ {bills[k].month : k \in DOMAIN bills} =
              {affiliateCommissions[i].createdAt : i \in Pending}
       /\ \A j, k \in DOMAIN bills : bills[j].month = bills[k].month => j = k
       /\ \A k \in DOMAIN bills :
             /\ bills[k].totalCommissions = SumOver(members(bills[k].month), "commissionAmount")
             /\ bills[k].totalSales = SumOver(members(bills[k].month), "saleAmount")
             /\ bills[k].transactionCount = Cardinality(members(bills[k].month))
             /\ SeqRange(bills[k].commissionIds) = members(bills[k].month)

\* pending commissions created in months 1 and 2: two bills of one
\* commission each, the later month first
C12_Witness ==
    LET bills == getMonthlyBills(affiliateCommissions)
    IN /\ Len(bills) = 2
       /\ bills[1].month > bills[2].month
       /\ bills[1].transactionCount = 1
       /\ bills[2].totalCommissions = CommissionAmount(CREDIT_PACKAGES[5000].price)

\* C13: once the completion event of a payment reference has been
\* processed, the credit_purchases row created pending at checkout for that
\* reference has status completed, in the session flow and in the intent flow.
C13_PendingPurchaseFlippedToCompleted ==
    \A ref \in DOMAIN stripeObjs :
        delivered[ref] >= 1
        => \A i \in DOMAIN creditPurchases :
              creditPurchases[i].stripePaymentIntentId = StripeId(ref)
              => creditPurchases[i].status = "completed"

\* what the handler r has debited from its user when it answers: the balance
\* it read less the balance it leaves
Debited(r) ==
    (IF req[r].pc = "getUser"
     THEN users[req[r].userId].credits ELSE req[r].credits)
    - users'[req[r].userId].credits

\* the creditsUsed of the order row the handler r has inserted when it
\* answers: past the insert that is the last row of the table
Inserted(r) ==
    IF req[r].pc = "notify" THEN orders[Len(orders)].creditsUsed ELSE 0

\* C14: with one request served at a time, what an order handler has debited
\* from its user when it answers, a failure of the insert after the
\* deduction included, is the creditsUsed of the order row it inserted, and
\* nothing when it inserted none.
C14_DebitMatchesInsertedOrders ==
    [][\A r \in Reqs :
         (req[r].pc \in {"getUser", "deduct", "insert", "notify"} /\ req'[r].pc = "done")
         => Debited(r) = Inserted(r)
      ]_vars

\* the users that hold the code the browsing session carries
SessionAffiliates ==
    {u \in DOMAIN users : sessionCode # NoCode /\ users[u].affiliateCode = sessionCode}

\* C15: every registration adds one user whose referredBy is the id of the
\* user holding the referral code of the caller's session, and is unset when
\* the session carries no code or nobody holds it; the users registered
\* before stay as they were.
C15_RegistrationAttribution ==
    [][Len(users') # Len(users)
       => /\ Len(users') = Len(users) + 1
          /\ \A u \in DOMAIN users : users'[u] = users[u]
          /\ users'[Len(users')].credits = 0
          /\ IF SessionAffiliates = {}
             THEN users'[Len(users')].referredBy = NoUser
             ELSE users'[Len(users')].referredBy \in SessionAffiliates
      ]_vars

\* one user registered through the referral link of another, and the
\* affiliate itself registered without any
C15_Witness ==
    \E u, a \in DOMAIN users :
        /\ users[u].referredBy = a
        /\ users[a].affiliateCode # NoCode
        /\ users[a].referredBy = NoUser
        /\ a < u

\* C16: whatever the code, held by a user or not, a referral click can
\* insert its click row: GET /ref/:code with any code adds exactly one row
\* to affiliate_clicks and leaves the rows before it as they were.
C16_ClickAlwaysInserts ==
    \A c \in Codes :
        Len(affiliateClicks) < MaxClicks
        => ENABLED (/\ RefClick(c)
                    /\ affiliateClicks' = Append(affiliateClicks, c))

\* C17: every order row a request inserts has status pending, no csvUrl and
\* no completedAt, whatever body the request carried.
C17_NewOrderIsPending ==
    [][Len(orders') = Len(orders) + 1
       => /\ orders'[Len(orders')].status = "pending"
          /\ orders'[Len(orders')].csvUrl = NoUrl
          /\ orders'[Len(orders')].completedAt = NoTime
      ]_vars

\* C18: every order whose status is completed has a csvUrl and a
\* completedAt.
C18_CompletedOrderHasDelivery ==
    \A i \in DOMAIN orders :
        orders[i].status = "completed"
        => (orders[i].csvUrl # NoUrl /\ orders[i].completedAt # NoTime)

\* C19: no step changes the status of an order that is completed or failed.
C19_TerminalStatusStays ==
    [][\A i \in DOMAIN orders :
         orders[i].status \in {"completed", "failed"}
         => orders'[i].status = orders[i].status
      ]_vars

\* C20: the step after the order insert, whether or not the admin alert
\* could be sent, answers the created order and leaves the deducted balance
\* and the order row in place.
C20_NotificationFailureKeepsOrder ==
    [][\A r \in Reqs :
         (req[r].pc = "notify" /\ req'[r] # req[r])
         => /\ req'[r].res = "ok"
            /\ orders' = orders
            /\ orders # <<>>
            /\ orders[Len(orders)].userId = req[r].userId
            /\ orders[Len(orders)].creditsUsed = req[r].creditsUsed
            /\ users' = users
            /\ users[req[r].userId].credits = req[r].credits - req[r].creditsUsed
      ]_vars

\* more orders were answered to their callers than alerts reached the admin
C20_Witness ==
    /\ Cardinality({r \in Reqs : req[r].res = "ok"}) > newOrderAlerts
    /\ Len(orders) = Cardinality({r \in Reqs : req[r].res = "ok"})
    /\ \E i \in DOMAIN orders : orders[i].creditsUsed > 0

\* C21: for each of the five notification kinds (registration verification,
\* purchase confirmation, new-order alert, order completion, password reset)
\* a send that fails is not passed on to the caller: the operation keeps its
\* database effect and still reports success.
C21_EmailFailureNeverPropagated ==
    [][/\ Register(FALSE) => Len(users') = Len(users) + 1
       /\ \A ref \in DOMAIN stripeObjs :
             /\ stripeObjs[ref].userId \in DOMAIN users
             /\ \/ PaymentIntentSucceeded(ref, FALSE)
                \/ CheckoutSessionCompleted(ref, FALSE)
             => users'[stripeObjs[ref].userId].credits =
                   users[stripeObjs[ref].userId].credits + stripeObjs[ref].credits
       /\ \A r \in Reqs :
             OrderNotify(r, FALSE) => req'[r].res = "ok" /\ orders' = orders
       /\ \A id \in DOMAIN orders :
             Fulfill(id, 1, FALSE) => orders'[id].status = "completed"
       /\ \A email \in DOMAIN users :
             ForgotPassword(email, FALSE)
             => /\ resetRes' = "ok"
                /\ users'[email].passwordResetToken =
                      ResetToken(Len(resetTokensIssued'))]_vars

\* C22: an order request whose creditsUsed is zero or negative is rejected
\* as a validation error: the balance stays, no Order row is written, and
\* no step of order creation ever raises a balance.
C22_NonPositiveOrderRejected ==
    [][/\ \A r \in Reqs, u \in UserIds, n \in OrderInputs,
             body \in FormBodies, valid \in BOOLEAN :
             n <= 0 /\ OrderRequest(r, u, n, body, valid)
             => req'[r] = Responded("ValidationError")
       /\ \A r \in Reqs :
             OrderCheck(r) \/ OrderDeduct(r) \/ (\E dbOk \in BOOLEAN : OrderInsert(r, dbOk))
             => /\ \A u \in DOMAIN users : users'[u].credits <= users[u].credits
                /\ \A i \in DOMAIN orders' : orders'[i].creditsUsed > 0]_vars

\* the credits addCredits calls have added to user u: one grant per delivery
\* of a payment event of u's
Added(u) ==
    SumSeq([ref \in DOMAIN stripeObjs |->
               IF stripeObjs[ref].userId = u
               THEN delivered[ref] * stripeObjs[ref].credits
               ELSE 0])

\* the credits deductCredits calls have taken from user u: the Order rows
\* and the handlers between their deduction and their insert
Deducted(u) ==
    SumSeq([i \in DOMAIN orders |->
               IF orders[i].userId = u THEN orders[i].creditsUsed ELSE 0])
    + SumSeq([r \in Reqs |->
               IF req[r].pc = "insert" /\ req[r].userId = u
               THEN req[r].creditsUsed
               ELSE 0])

\* C23: addCredits and deductCredits are atomic, unconditional adjustments:
\* under any interleaving of concurrent calls a balance is its initial value
\* plus everything added minus everything deducted, with no clamping at zero.
C23_BalanceIsSumOfAdjustments ==
    \A u \in DOMAIN users : users[u].credits = 0 + Added(u) - Deducted(u)

\* two handlers passed the check on the same balance, both deducted, and the
\* balance went below zero
C23_Witness ==
    /\ users[1].credits < 0
    /\ delivered[1] > 0
    /\ Len(orders) >= 1

\* C24: affiliate codes are unique and never reused: over any sequence of
\* generateAffiliateCode calls, overwrites included, a code that is or once
\* was assigned to one user is never assigned to a different user.
C24_CodeNeverReassigned ==
    /\ \A u, v \in DOMAIN users :
          users[u].affiliateCode # NoCode /\ users[u].affiliateCode = users[v].affiliateCode
          => u = v
    /\ \A a, b \in codeOwners : a[1] = b[1] => a[2] = b[2]

\* C25 as the specification states it: monthlyCommissions holds no
\* contribution of a commission that is not paid; a commission appears only
\* after markCommissionsPaid.
C25_MonthlyCommissionsPaidOnly ==
    \A u \in DOMAIN users :
        \A e \in monthlyCommissions(affiliateCommissions, users, u) :
            e.status = "paid"

\* C25: monthlyCommissions of an affiliate has one entry per (paymentMonth,
\* status) pair over all the affiliate's commissions, pending ones included:
\* a pending commission counts in the entry of the month written at its
\* creation with status pending, a paid one in the entry of the month
\* markCommissionsPaid wrote; an entry's amount is the sum of its
\* commissions.
C25_MonthlyCommissionsCoverEveryCommission ==
    \A u \in DOMAIN users :
        users[u].affiliateCode # NoCode =>
        LET mc == monthlyCommissions(affiliateCommissions, users, u)
            mine == {i \in DOMAIN affiliateCommissions :
                        affiliateCommissions[i].affiliateUserId = u}
            members(e) == {i \in mine :
                              /\ affiliateCommissions[i].paymentMonth = e.month
                              /\ affiliateCommissions[i].status = e.status}
        IN /\ \A i \in mine : \E e \in mc : i \in members(e)
           /\ \A e \in mc : /\ members(e) # {}
                            /\ e.amount = SumOver(members(e), "commissionAmount")
           /\ \A e, f \in mc : e.month = f.month /\ e.status = f.status => e = f

\* user 1 has been paid one commission and has another still pending: one
\* entry of each status
C25_Witness ==
    LET mc == monthlyCommissions(affiliateCommissions, users, 1)
    IN /\ \E e \in mc : e.status = "pending" /\ e.month # NoMonth /\ e.amount > 0
       /\ \E e \in mc : e.status = "paid"

\* C26: from a session that has not presented the affiliate-admin secret,
\* mark-paid and pending-commissions are answered Unauthorized and no
\* AffiliateCommission row changes; a commission turns paid only by a
\* request of an admin-authenticated session.
C26_PaidOnlyByAdminSession ==
    [][/\ ~affiliateAdminAuth
          => /\ \A ids \in SUBSET DOMAIN affiliateCommissions, m \in Months \cup {NoMonth} :
                   MarkPaidResponse(affiliateAdminAuth, ids, m) = "Unauthorized"
             /\ PendingCommissions(affiliateAdminAuth, affiliateCommissions).status
                   = "Unauthorized"
             /\ \A i \in DOMAIN affiliateCommissions :
                   affiliateCommissions'[i] = affiliateCommissions[i]
       /\ \A i \in DOMAIN affiliateCommissions :
             /\ affiliateCommissions[i].status # "paid"
             /\ affiliateCommissions'[i].status = "paid"
             => /\ affiliateAdminAuth
                /\ \E ids \in SUBSET DOMAIN affiliateCommissions, m \in Months :
                      i \in ids /\ MarkPaid(ids, m)]_vars

\* the admin session has ended after a payout: one commission is paid, a
\* later one is pending and the session no longer carries the flag
C26_Witness ==
    /\ ~affiliateAdminAuth
    /\ \E i \in DOMAIN affiliateCommissions : affiliateCommissions[i].status = "paid"
    /\ \E i \in DOMAIN affiliateCommissions : affiliateCommissions[i].status = "pending"

\* C27: fulfilling an order id that matches no Order fails with NotFound,
\* changes no Order row and sends no customer notification.
C27_UnknownOrderIsNotFound ==
    \A id \in Reqs, csvUrl \in {1, 2}, emailOk \in BOOLEAN :
        id \notin DOMAIN orders
        => /\ FulfillResponse(orders, id, csvUrl, emailOk).status = "NotFound"
           /\ ~FulfillResponse(orders, id, csvUrl, emailOk).notified
           /\ fulfillOrder(orders, id, csvUrl, "completed", month) = orders

\* C28: the team actions take effect only for a caller that has passed the
\* team shared-secret check: while the caller has not passed it, fulfilling
\* changes no Order and assigning credits changes no balance.
C28_TeamActionsNeedTeamLogin ==
    [][~teamAuthenticated
       => /\ \A id \in Reqs, csvUrl \in {NoUrl, 1}, emailOk \in BOOLEAN :
                Fulfill(id, csvUrl, emailOk) => orders' = orders
          /\ \A email \in UserIds \cup {NoUser}, credits \in 0 .. MaxCredits :
                AssignCredits(email, credits) => users' = users]_vars

\* token k is the one most recently issued to its user and is younger than
\* 30 minutes
Current(k) ==
    /\ k \in DOMAIN resetTokensIssued
    /\ \A j \in DOMAIN resetTokensIssued :
          resetTokensIssued[j].email = resetTokensIssued[k].email => j <= k
    /\ clock < resetTokensIssued[k].at + RESET_TTL

\* C29: a password-reset token is single-use and expires 30 minutes after
\* its issue: a reset succeeds only with the token most recently issued to
\* the user and before its expiry, and then sets the new password; an
\* attempt after a successful reset, after the expiry or after a newer
\* token was issued fails and leaves every password as it was.
C29_ResetTokenSingleUseAndExpiring ==
    [][/\ \A k \in 1 .. MaxTokens, newPassword \in Passwords, valid \in BOOLEAN :
             ResetPassword(ResetToken(k), newPassword, valid)
             => IF resetRes' = "PasswordReset"
                THEN /\ valid
                     /\ Current(k)
                     /\ users'[resetTokensIssued[k].email].password = newPassword
                     /\ \A u \in DOMAIN users :
                           u # resetTokensIssued[k].email
                           => users'[u].password = users[u].password
                     /\ getUserByPasswordResetToken(users', ResetToken(k), clock') = NoUser
                ELSE \A u \in DOMAIN users : users'[u].password = users[u].password
       /\ \A k \in 1 .. MaxTokens :
             \/ getUserByPasswordResetToken(users, ResetToken(k), clock) # NoUser
             \/ k \notin DOMAIN resetTokensIssued
             \/ getUserByPasswordResetToken(users', ResetToken(k), clock') = NoUser]_vars

\* user 2 has reset the password with the second token issued, and a later
\* attempt was turned down
C29_Witness ==
    /\ Len(resetTokensIssued) = 2
    /\ users[2].password # FirstPassword
    /\ users[2].passwordResetToken = NoId
    /\ resetRes = "InvalidToken"

\* C30: order creation only debits the authenticated caller: whatever the
\* request body carries, a userId of another user included, the Order row
\* written has the caller's id as its userId and the caller's balance is the
\* only one that changes.
C30_OrderDebitsOnlyTheCaller ==
    [][/\ \A r \in Reqs, u \in DOMAIN users, n \in 1 .. MaxCredits,
             body \in ForeignBodies :
             OrderRequest(r, u, n, body, TRUE) => req'[r].userId = u
       /\ \A r \in Reqs :
             req[r].pc \in {"getUser", "deduct", "insert", "notify"}
             => /\ \A u \in DOMAIN users :
                      u # req[r].userId => users'[u].credits = users[u].credits
                /\ Len(orders') > Len(orders)
                   => orders'[Len(orders')].userId = req[r].userId]_vars

\* user 1 has sent a body carrying user 2's id: the row is user 1's, user 1
\* paid for it and user 2's balance is still in full
C30_Witness ==
    \E r \in Reqs :
        /\ req[r].pc = "notify"
        /\ req[r].userId = 1
        /\ req[r].body.userId = 2
        /\ orders[Len(orders)].userId = 1
        /\ users[1].credits = 0
        /\ users[2].credits = MaxCredits

====
